---- MODULE Spec2Model ----
(***************************************************************************)
(* State-machine model of src/src/rom_filesystem.rs: the RomFilesystem     *)
(* engine (registry, handle table, identifier counter, their three         *)
(* mutexes) as driven concurrently by the worker threads of the FUSE       *)
(* runtime.                                                                *)
(*                                                                         *)
(* A handler runs in steps: Call (a worker picks up a request), one Lock   *)
(* step per mutex the handler takes, in the handler's order, one body step *)
(* (the code between the last lock() and the return, which ends with the   *)
(* guards being dropped), and Return (the runtime takes the reply).  The   *)
(* arguments of a request are immutable locals of the handler: no Lock     *)
(* step reads them, so the model draws them in the body step.              *)
(***************************************************************************)
EXTENDS Integers, Sequences, FiniteSets, TLC

\* ------------------------------------------------------------- bounds
\* Largest identifier the model lets open/opendir issue (u64 in the code).
MaxHandle == 2

\* The offsets and lengths read is called with: inside, at and past the end
\* of the sample files.
Offsets == {0, 3}
Lengths == {0, 2}

Threads == {"t1", "t2"}
NoThread == "none"

\* Option<T>
None == <<>>
Some(x) == <<x>>

\* Result<T, libc::c_int>
Ok(v) == [ok |-> TRUE, val |-> v]
Err(e) == [ok |-> FALSE, err |-> e]
NoRet == [ok |-> FALSE, err |-> "none"]

ENOENT == "ENOENT"
ENOSYS == "ENOSYS"
EIO == "EIO"

\* ------------------------------------------------------------- time
Timespec(sec, nsec) == [sec |-> sec, nsec |-> nsec]
EPOCH == Timespec(0, 0)
TTL == Timespec(1, 0)

\* A SystemTime, as its distance from UNIX_EPOCH and the side it lies on.
SystemTime(before, secs, nanos) == [before_epoch |-> before, secs |-> secs, nanos |-> nanos]

\* duration_since(UNIX_EPOCH) is Err for a time before the epoch.
timespec_from(st) ==
    IF ~st.before_epoch THEN Timespec(st.secs, st.nanos) ELSE Timespec(0, 0)

\* ------------------------------------------------------------- paths
\* A path is the sequence of its components, the root directory first.
RootPath == <<"/">>
Names == {"a.rom", "b.rom"}
Paths == {RootPath, <<"/", "a.rom">>, <<"/", "b.rom">>, <<"/", "missing.rom">>}

\* path.strip_prefix("/").unwrap(): the components after the root.
strip_prefix(path) == Tail(path)

\* Path::new("")
EmptyPath == <<>>

\* ------------------------------------------------------------- registry
BpsHeader(size, ctime, mtime, atime) ==
    [target_size |-> size, create_time |-> ctime, modify_time |-> mtime, access_time |-> atime]

HeaderA == BpsHeader(2, SystemTime(FALSE, 10, 5), SystemTime(FALSE, 20, 0), SystemTime(FALSE, 30, 7))
HeaderB == BpsHeader(1, SystemTime(TRUE, 3, 0), SystemTime(FALSE, 0, 0), SystemTime(FALSE, 40, 1))

\* The registries a session may be constructed with (RomManager::target_roms).
Registries ==
    { [n \in S |-> IF n = "a.rom" THEN HeaderA ELSE HeaderB] :
        S \in {{}, {"a.rom"}, {"a.rom", "b.rom"}} }

\* Mutant of target_roms_get: the lookup ignores the path and yields an entry
\* of a non-empty registry.
target_roms_get_any(roms, path) ==
    IF DOMAIN roms # {} THEN <<roms[CHOOSE n \in DOMAIN roms : TRUE]>> ELSE <<>>

\* target_roms.get(path): the key equal to the (stripped) path, if any.
target_roms_get(roms, path) ==
    IF Len(path) = 1 /\ path[1] \in DOMAIN roms THEN Some(roms[path[1]]) ELSE None

\* The bytes generate_patched_rom() yields for a header: target_size bytes.
MaterializedBytes(header) == [i \in 1..header.target_size |-> (i * 7) % 256]

\* ------------------------------------------------------------- handles
Directory(attr) == [kind |-> "Directory", attr |-> attr]
\* Mutant of File: the handle is created with a present but empty cache.
File_empty_cache(attr, data) == [kind |-> "File", attr |-> attr, data |-> <<<<>>>>]

File(attr, data) == [kind |-> "File", attr |-> attr, data |-> data]

get_root_attr ==
    [size |-> 0, blocks |-> 0, atime |-> EPOCH, mtime |-> EPOCH, ctime |-> EPOCH,
     crtime |-> EPOCH, kind |-> "Directory", perm |-> 292, nlink |-> 1,
     uid |-> "euid", gid |-> "egid", rdev |-> 0, flags |-> 0]

\* Mutant of get_file_attr: size and blocks swapped.
get_file_attr_swapped(header) ==
    [size |-> 0, blocks |-> header.target_size,
     atime |-> timespec_from(header.access_time),
     mtime |-> timespec_from(header.modify_time),
     ctime |-> timespec_from(header.modify_time),
     crtime |-> timespec_from(header.create_time),
     kind |-> "RegularFile", perm |-> 292, nlink |-> 1,
     uid |-> "euid", gid |-> "egid", rdev |-> 0, flags |-> 0]

get_file_attr(header) ==
    [size |-> header.target_size, blocks |-> 0,
     atime |-> timespec_from(header.access_time),
     mtime |-> timespec_from(header.modify_time),
     ctime |-> timespec_from(header.modify_time),
     crtime |-> timespec_from(header.create_time),
     kind |-> "RegularFile", perm |-> 292, nlink |-> 1,
     uid |-> "euid", gid |-> "egid", rdev |-> 0, flags |-> 0]

DirectoryEntry(name, kind) == [name |-> name, kind |-> kind]

\* HashMap::get
handles_get(tbl, fh) == IF fh \in DOMAIN tbl THEN Some(tbl[fh]) ELSE None

\* HashMap::insert
handles_insert(tbl, fh, h) == [k \in DOMAIN tbl \cup {fh} |-> IF k = fh THEN h ELSE tbl[k]]

\* Mutant of handles_remove: the whole table is cleared.
handles_remove_all(tbl, fh) == <<>>

\* Mutant of handles_remove: the entry is left in the table.
handles_remove_kept(tbl, fh) == tbl

\* HashMap::remove
handles_remove(tbl, fh) == [k \in DOMAIN tbl \ {fh} |-> tbl[k]]

\* Mutant of next_handle_incr: the counter is not advanced.
next_handle_stuck(n) == n

\* *next_handle += 1
next_handle_incr(n) == n + 1

\* ------------------------------------------------------------- state
VARIABLES
    rom_manager,   \* the registry: [target_roms |-> name -> BpsHeader]
    handles,       \* the handle table: identifier -> Handle
    next_handle,   \* the identifier counter
    owner,         \* mutex name -> the thread holding it, or NoThread
    pc,            \* thread -> "idle", the mutex it waits for, "body" or "done"
    op,            \* thread -> the handler it runs
    req,           \* thread -> the arguments of its request
    ret,           \* thread -> the reply of its handler
    issued,        \* history: the identifiers successful open/opendir returned, in order
    released,      \* history: identifiers removed by a successful release/releasedir
    opened_as      \* history: open identifier -> the (stripped) path it was opened with

vars == <<rom_manager, handles, next_handle, owner, pc, op, req, ret, issued, released,
          opened_as>>

LockNames == {"rom_manager", "handles", "next_handle"}

NoOp == "none"
Ops == {"init", "opendir", "readdir", "releasedir", "access", "getattr", "open", "read", "release"}

\* Mutant of LocksOf: opendir locks next_handle before handles.
LocksOf_opendir_inverted(o) ==
    CASE o = "opendir"    -> <<"next_handle", "handles">>
      [] o = "readdir"    -> <<"rom_manager", "handles">>
      [] o = "releasedir" -> <<"handles">>
      [] o = "getattr"    -> <<"rom_manager", "handles">>
      [] o = "open"       -> <<"rom_manager", "handles", "next_handle">>
      [] o = "release"    -> <<"handles">>
      [] OTHER            -> <<>>

\* Mutant of LocksOf: read holds the handle table's mutex across its body.
LocksOf_read_locks(o) ==
    CASE o = "opendir"    -> <<"handles", "next_handle">>
      [] o = "readdir"    -> <<"rom_manager", "handles">>
      [] o = "releasedir" -> <<"handles">>
      [] o = "getattr"    -> <<"rom_manager", "handles">>
      [] o = "open"       -> <<"rom_manager", "handles", "next_handle">>
      [] o = "read"       -> <<"handles">>
      [] o = "release"    -> <<"handles">>
      [] OTHER            -> <<>>

\* Mutant of LocksOf: release and releasedir run without the table's mutex.
LocksOf_release_unlocked(o) ==
    CASE o = "opendir"    -> <<"handles", "next_handle">>
      [] o = "readdir"    -> <<"rom_manager", "handles">>
      [] o = "getattr"    -> <<"rom_manager", "handles">>
      [] o = "open"       -> <<"rom_manager", "handles", "next_handle">>
      [] OTHER            -> <<>>

\* The mutexes each handler locks, in the order of its lock() calls.
LocksOf(o) ==
    CASE o = "opendir"    -> <<"handles", "next_handle">>
      [] o = "readdir"    -> <<"rom_manager", "handles">>
      [] o = "releasedir" -> <<"handles">>
      [] o = "getattr"    -> <<"rom_manager", "handles">>
      [] o = "open"       -> <<"rom_manager", "handles", "next_handle">>
      [] o = "release"    -> <<"handles">>
      [] OTHER            -> <<>>

\* The position of a handler that holds its first k mutexes.
PcAt(o, k) == IF k < Len(LocksOf(o)) THEN LocksOf(o)[k + 1] ELSE "body"

\* The number of mutexes thread t holds.
Held(t) == Cardinality({l \in LockNames : owner[l] = t})

NoReq == [path |-> EmptyPath, fh |-> None, offset |-> 0, size |-> 0, codec |-> "ok"]

Request(path, fh, offset, size, codec) ==
    [path |-> path, fh |-> fh, offset |-> offset, size |-> size, codec |-> codec]

\* access(path, mask): the masks it is called with (F_OK, W_OK).
Masks == {0, 2}

AccessRequest(path, mask) ==
    [path |-> path, fh |-> None, offset |-> 0, size |-> 0, codec |-> "ok", mask |-> mask]

\* Mutant of Init: the counter starts at the default of its type.
Init_from_zero ==
    /\ rom_manager \in {[target_roms |-> r] : r \in Registries}
    /\ handles = <<>>
    /\ next_handle = 0
    /\ owner = [l \in LockNames |-> NoThread]
    /\ pc = [t \in Threads |-> "idle"]
    /\ op = [t \in Threads |-> NoOp]
    /\ req = [t \in Threads |-> NoReq]
    /\ ret = [t \in Threads |-> NoRet]
    /\ issued = <<>>
    /\ released = {}
    /\ opened_as = <<>>

Init ==
    /\ rom_manager \in {[target_roms |-> r] : r \in Registries}
    /\ handles = <<>>
    /\ next_handle = 1
    /\ owner = [l \in LockNames |-> NoThread]
    /\ pc = [t \in Threads |-> "idle"]
    /\ op = [t \in Threads |-> NoOp]
    /\ req = [t \in Threads |-> NoReq]
    /\ ret = [t \in Threads |-> NoRet]
    /\ issued = <<>>
    /\ released = {}
    /\ opened_as = <<>>

\* A worker thread of the runtime enters handler o.
Call(t, o) ==
    /\ pc[t] = "idle"
    /\ pc' = [pc EXCEPT ![t] = PcAt(o, 0)]
    /\ op' = [op EXCEPT ![t] = o]
    /\ UNCHANGED <<rom_manager, handles, next_handle, owner, req, ret, issued, released, opened_as>>

\* self.<mutex>.lock().unwrap(): blocks while another thread holds the mutex.
Lock(t) ==
    /\ pc[t] \in LockNames
    /\ owner[pc[t]] = NoThread
    /\ owner' = [owner EXCEPT ![pc[t]] = t]
    /\ pc' = [pc EXCEPT ![t] = PcAt(op[t], Held(t) + 1)]
    /\ UNCHANGED <<rom_manager, handles, next_handle, op, req, ret, issued, released, opened_as>>

\* Mutant of Reply: a handler that fails returns with its guards still held.
Reply_leaks_on_error(t, q, r) ==
    /\ req' = [req EXCEPT ![t] = q]
    /\ ret' = [ret EXCEPT ![t] = r]
    /\ pc' = [pc EXCEPT ![t] = "done"]
    /\ owner' = [l \in LockNames |-> IF owner[l] = t /\ r.ok THEN NoThread ELSE owner[l]]
    /\ UNCHANGED op

\* The handler of t returns r for request q: its guards are dropped.
Reply(t, q, r) ==
    /\ req' = [req EXCEPT ![t] = q]
    /\ ret' = [ret EXCEPT ![t] = r]
    /\ pc' = [pc EXCEPT ![t] = "done"]
    /\ owner' = [l \in LockNames |-> IF owner[l] = t THEN NoThread ELSE owner[l]]
    /\ UNCHANGED op

InBody(t, o) == pc[t] = "body" /\ op[t] = o

init(t) ==
    /\ InBody(t, "init")
    /\ Reply(t, NoReq, Ok(<<>>))
    /\ UNCHANGED <<rom_manager, handles, next_handle, issued, released, opened_as>>

opendir(t) ==
    /\ InBody(t, "opendir")
    /\ \E p \in Paths :
        LET path == strip_prefix(p) IN
        IF path = EmptyPath
        THEN /\ next_handle <= MaxHandle
             /\ LET handle == next_handle IN
                /\ next_handle' = next_handle_incr(next_handle)
                /\ handles' = handles_insert(handles, handle, Directory(get_root_attr))
                /\ issued' = Append(issued, handle)
                /\ opened_as' = handles_insert(opened_as, handle, path)
                /\ Reply(t, Request(p, None, 0, 0, "ok"), Ok(<<handle, 0>>))
                /\ UNCHANGED <<rom_manager, released>>
        ELSE /\ Reply(t, Request(p, None, 0, 0, "ok"), Err(ENOENT))
             /\ UNCHANGED <<rom_manager, handles, next_handle, issued, released, opened_as>>

\* The enumerations of a finite set: the orders keys() may yield.
Orders(S) == {s \in [1..Cardinality(S) -> S] : \A i, j \in DOMAIN s : s[i] = s[j] => i = j}

\* Mutant of readdir_files: the ".." entry is forgotten.
readdir_files_nodotdot(order) ==
    <<DirectoryEntry(".", "Directory")>>
        \o [i \in DOMAIN order |-> DirectoryEntry(order[i], "RegularFile")]

readdir_files(order) ==
    <<DirectoryEntry(".", "Directory"), DirectoryEntry("..", "Directory")>>
        \o [i \in DOMAIN order |-> DirectoryEntry(order[i], "RegularFile")]

IsSome(x) == x # None
Unwrap(x) == x[1]
\* Mutant of IsKind: the variant of the handle is not matched.
IsKind_any(x, k) == x # <<>>
IsKind(x, k) == IsSome(x) /\ Unwrap(x).kind = k

readdir(t) ==
    /\ InBody(t, "readdir")
    /\ \E fh \in 1..MaxHandle :
        /\ IF IsKind(handles_get(handles, fh), "Directory")
           THEN \E order \in Orders(DOMAIN rom_manager.target_roms) :
                    Reply(t, Request(RootPath, Some(fh), 0, 0, "ok"), Ok(readdir_files(order)))
           ELSE Reply(t, Request(RootPath, Some(fh), 0, 0, "ok"), Err(ENOENT))
        /\ UNCHANGED <<rom_manager, handles, next_handle, issued, released, opened_as>>

releasedir(t) ==
    /\ InBody(t, "releasedir")
    /\ \E fh \in 1..MaxHandle :
        IF IsKind(handles_get(handles, fh), "Directory")
        THEN /\ handles' = handles_remove(handles, fh)
             /\ released' = released \cup {fh}
             /\ opened_as' = handles_remove(opened_as, fh)
             /\ Reply(t, Request(RootPath, Some(fh), 0, 0, "ok"), Ok(<<>>))
             /\ UNCHANGED <<rom_manager, next_handle, issued>>
        ELSE /\ Reply(t, Request(RootPath, Some(fh), 0, 0, "ok"), Err(ENOENT))
             /\ UNCHANGED <<rom_manager, handles, next_handle, issued, released, opened_as>>

\* Mutant of access: a write is refused on the read-only filesystem.
access_enforcing(t) ==
    /\ pc[t] = "body" /\ op[t] = "access"
    /\ \E p \in Paths, mask \in Masks :
        Reply(t, AccessRequest(p, mask), IF mask = 2 THEN Err("EACCES") ELSE Ok(<<>>))
    /\ UNCHANGED <<rom_manager, handles, next_handle, issued, released, opened_as>>

access(t) ==
    /\ InBody(t, "access")
    /\ \E p \in Paths, mask \in Masks : Reply(t, AccessRequest(p, mask), Ok(<<>>))
    /\ UNCHANGED <<rom_manager, handles, next_handle, issued, released, opened_as>>

getattr_result(roms, tbl, path, fh) ==
    IF IsSome(fh)
    THEN LET h == handles_get(tbl, Unwrap(fh)) IN
         IF IsSome(h) THEN Ok(<<TTL, Unwrap(h).attr>>) ELSE Err(ENOENT)
    ELSE IF path = EmptyPath
         THEN Ok(<<TTL, get_root_attr>>)
         ELSE LET rom == target_roms_get(roms, path) IN
              IF IsSome(rom) THEN Ok(<<TTL, get_file_attr(Unwrap(rom))>>) ELSE Err(ENOENT)

getattr(t) ==
    /\ InBody(t, "getattr")
    /\ \E p \in Paths, fh \in {None} \cup {Some(h) : h \in 1..MaxHandle} :
        Reply(t, Request(p, fh, 0, 0, "ok"),
              getattr_result(rom_manager.target_roms, handles, strip_prefix(p), fh))
    /\ UNCHANGED <<rom_manager, handles, next_handle, issued, released, opened_as>>

\* Mutant of open: the entry is taken out of the registry (remove for get).
open_consuming(t) ==
    /\ pc[t] = "body" /\ op[t] = "open"
    /\ \E p \in Paths :
        LET path == strip_prefix(p)
            roms == rom_manager.target_roms
            rom == target_roms_get(roms, path) IN
        IF IsSome(rom)
        THEN /\ next_handle <= MaxHandle
             /\ LET handle == next_handle IN
                /\ next_handle' = next_handle_incr(next_handle)
                /\ handles' = handles_insert(handles, handle,
                                             File(get_file_attr(Unwrap(rom)), None))
                /\ rom_manager' = [target_roms |-> [n \in DOMAIN roms \ {path[1]} |-> roms[n]]]
                /\ issued' = Append(issued, handle)
                /\ opened_as' = handles_insert(opened_as, handle, path)
                /\ Reply(t, Request(p, None, 0, 0, "ok"), Ok(<<handle, 0>>))
                /\ UNCHANGED released
        ELSE /\ Reply(t, Request(p, None, 0, 0, "ok"), Err(ENOENT))
             /\ UNCHANGED <<rom_manager, handles, next_handle, issued, released, opened_as>>

open(t) ==
    /\ InBody(t, "open")
    /\ \E p \in Paths :
        LET path == strip_prefix(p)
            rom == target_roms_get(rom_manager.target_roms, path) IN
        IF IsSome(rom)
        THEN /\ next_handle <= MaxHandle
             /\ LET handle == next_handle IN
                /\ next_handle' = next_handle_incr(next_handle)
                /\ handles' = handles_insert(handles, handle,
                                             File(get_file_attr(Unwrap(rom)), None))
                /\ issued' = Append(issued, handle)
                /\ opened_as' = handles_insert(opened_as, handle, path)
                /\ Reply(t, Request(p, None, 0, 0, "ok"), Ok(<<handle, 0>>))
                /\ UNCHANGED <<rom_manager, released>>
        ELSE /\ Reply(t, Request(p, None, 0, 0, "ok"), Err(ENOENT))
             /\ UNCHANGED <<rom_manager, handles, next_handle, issued, released, opened_as>>

\* read replies ENOSYS whatever its arguments; it takes no mutex, reads no
\* state and never calls the patch codec (whose answer, had it been asked,
\* is the input codec).
read(t) ==
    /\ InBody(t, "read")
    /\ \E fh \in 1..MaxHandle, offset \in Offsets, size \in Lengths,
          codec \in {"ok", "fail"} :
        Reply(t, Request(RootPath, Some(fh), offset, size, codec), Err(ENOSYS))
    /\ UNCHANGED <<rom_manager, handles, next_handle, issued, released, opened_as>>

release(t) ==
    /\ InBody(t, "release")
    /\ \E fh \in 1..MaxHandle :
        IF IsKind(handles_get(handles, fh), "File")
        THEN /\ handles' = handles_remove(handles, fh)
             /\ released' = released \cup {fh}
             /\ opened_as' = handles_remove(opened_as, fh)
             /\ Reply(t, Request(RootPath, Some(fh), 0, 0, "ok"), Ok(<<>>))
             /\ UNCHANGED <<rom_manager, next_handle, issued>>
        ELSE /\ Reply(t, Request(RootPath, Some(fh), 0, 0, "ok"), Err(ENOENT))
             /\ UNCHANGED <<rom_manager, handles, next_handle, issued, released, opened_as>>

\* The runtime takes the reply; the worker is free for the next request.
Return(t) ==
    /\ pc[t] = "done"
    /\ pc' = [pc EXCEPT ![t] = "idle"]
    /\ req' = [req EXCEPT ![t] = NoReq]
    /\ ret' = [ret EXCEPT ![t] = NoRet]
    /\ op' = [op EXCEPT ![t] = NoOp]
    /\ UNCHANGED <<rom_manager, handles, next_handle, owner, issued, released, opened_as>>

Next ==
    \E t \in Threads :
        \/ \E o \in Ops : Call(t, o)
        \/ Lock(t)
        \/ init(t)
        \/ opendir(t)
        \/ readdir(t)
        \/ releasedir(t)
        \/ access(t)
        \/ getattr(t)
        \/ open(t)
        \/ read(t)
        \/ release(t)
        \/ Return(t)

Spec == Init /\ [][Next]_vars

\* ------------------------------------------------------------- claims
\* Vocabulary of the properties below, independent of the operators above.
Done(t, o) == pc[t] = "done" /\ op[t] = o

\* Thread t executes the body of handler o in this step.
BodyStep(t, o) == pc[t] = "body" /\ op[t] = o /\ pc'[t] = "done"

\* "absent", "Directory" or "File": what the table holds under fh.
KindOf(tbl, fh) == IF fh \in DOMAIN tbl THEN tbl[fh].kind ELSE "absent"

Keys == DOMAIN rom_manager.target_roms

Min(a, b) == IF a < b THEN a ELSE b

\* B[min(offset,n) .. min(offset+length,n))
Slice(B, offset, length) ==
    SubSeq(B, Min(offset, Len(B)) + 1, Min(offset + length, Len(B)))

\* The bytes the header of open File handle fh materializes to.
BytesOf(fh) == MaterializedBytes(rom_manager.target_roms[opened_as[fh][1]])

HandleOps == {"getattr", "read", "readdir", "release", "releasedir"}

\* C1: a read on an open File handle returns, as a non-error result, the
\* bytes B[min(offset,n) .. min(offset+length,n)) of the materialized content.
C1_ReadReturnsSlice ==
    [][\A t \in Threads :
         (BodyStep(t, "read") /\ KindOf(handles, req'[t].fh[1]) = "File")
         => /\ ret'[t].ok
            /\ ret'[t].val = Slice(BytesOf(req'[t].fh[1]), req'[t].offset, req'[t].size)]_vars

\* C2: when concurrent reads on one open File handle have all returned, each
\* holds the correct slice of the materialized bytes for its own range.
C2_ConcurrentReadsReturnSlices ==
    \A t, u \in Threads :
        (/\ t # u
         /\ Done(t, "read") /\ Done(u, "read")
         /\ req[t].fh = req[u].fh
         /\ KindOf(handles, req[t].fh[1]) = "File")
        => \A w \in {t, u} :
              /\ ret[w].ok
              /\ ret[w].val = Slice(BytesOf(req[w].fh[1]), req[w].offset, req[w].size)

\* C3: a read on an open File handle during which the patch codec fails
\* returns the IOFailure error and leaves the cache of the handle empty.
C3_FailedMaterializationIsIOFailure ==
    [][\A t \in Threads :
         (/\ BodyStep(t, "read")
          /\ KindOf(handles, req'[t].fh[1]) = "File"
          /\ handles[req'[t].fh[1]].data = None
          /\ req'[t].codec = "fail")
         => /\ ~ret'[t].ok
            /\ ret'[t].err = EIO
            /\ handles'[req'[t].fh[1]].data = None]_vars

\* C4: every call given an identifier that a successful release/releasedir
\* has removed fails with ENOENT.
C4_ReleasedHandleIsNotFound ==
    [][\A t \in Threads, o \in HandleOps :
         (BodyStep(t, o) /\ req'[t].fh # None /\ req'[t].fh[1] \in released)
         => (~ret'[t].ok /\ ret'[t].err = ENOENT)]_vars

AllocOps == {"open", "opendir"}

\* C5: the identifiers returned by the successful open/opendir calls of a
\* session are pairwise distinct, and every identifier a finished call holds
\* is one of them.
C5_DistinctIdentifiers ==
    /\ \A i, j \in DOMAIN issued : i # j => issued[i] # issued[j]
    /\ \A t \in Threads :
          (pc[t] = "done" /\ op[t] \in AllocOps /\ ret[t].ok)
          => \E i \in DOMAIN issued : issued[i] = ret[t].val[1]
    /\ \A t, u \in Threads :
          (/\ t # u
           /\ pc[t] = "done" /\ op[t] \in AllocOps /\ ret[t].ok
           /\ pc[u] = "done" /\ op[u] \in AllocOps /\ ret[u].ok)
          => ret[t].val[1] # ret[u].val[1]

\* The same file has been opened twice and both handles are open.
C5_Witness ==
    /\ Len(issued) = 2
    /\ \E h1, h2 \in DOMAIN handles :
          /\ h1 # h2
          /\ opened_as[h1] = opened_as[h2]
          /\ opened_as[h1] # EmptyPath

IssuedSet == {issued[i] : i \in DOMAIN issued}

\* C6: the identifiers in the handle table are exactly those returned by a
\* successful open/opendir and not yet removed by a successful
\* release/releasedir; an entry appears only in a successful open/opendir and
\* disappears only in a successful release (File) or releasedir (Directory).
C6_TableIsOpenSessions ==
    /\ [](DOMAIN handles = IssuedSet \ released)
    /\ [][\A id \in DOMAIN handles \cup DOMAIN handles' :
            /\ (id \in DOMAIN handles' \ DOMAIN handles)
               => \E t \in Threads :
                     /\ BodyStep(t, "open") \/ BodyStep(t, "opendir")
                     /\ ret'[t].ok
                     /\ ret'[t].val[1] = id
            /\ (id \in DOMAIN handles \ DOMAIN handles')
               => \E t \in Threads :
                     /\ \/ BodyStep(t, "release") /\ handles[id].kind = "File"
                        \/ BodyStep(t, "releasedir") /\ handles[id].kind = "Directory"
                     /\ ret'[t].ok
                     /\ req'[t].fh = <<id>>]_vars

\* One identifier has been released while another is still in the table.
C6_Witness ==
    /\ released # {}
    /\ DOMAIN handles # {}
    /\ \E t \in Threads : Done(t, "releasedir") /\ ret[t].ok

IsRoot(p) == p = <<"/">>
IsKey(p) == Len(p) = 2 /\ p[2] \in Keys
NotFound(t) == ~ret[t].ok /\ ret[t].err = ENOENT

\* C7: open, opendir and getattr without a handle fail with ENOENT for every
\* path that is neither the root nor a registry key; opendir fails with
\* ENOENT for every non-root path and open for the root path.
C7_UnknownPathIsNotFound ==
    \A t \in Threads :
        /\ (/\ \/ Done(t, "open")
               \/ Done(t, "opendir")
               \/ Done(t, "getattr") /\ req[t].fh = <<>>
            /\ ~IsRoot(req[t].path)
            /\ ~IsKey(req[t].path))
           => NotFound(t)
        /\ (Done(t, "opendir") /\ ~IsRoot(req[t].path)) => NotFound(t)
        /\ (Done(t, "open") /\ IsRoot(req[t].path)) => NotFound(t)

\* An open of an unknown path and an opendir of a registry key have failed.
C7_Witness ==
    \E t, u \in Threads :
        /\ Done(t, "open") /\ req[t].path = <<"/", "missing.rom">> /\ NotFound(t)
        /\ Done(u, "opendir") /\ IsKey(req[u].path) /\ NotFound(u)

\* files holds "." and ".." as directories and each key once as a regular
\* file, and nothing else.
ExactListing(files) ==
    /\ Len(files) = 2 + Cardinality(Keys)
    /\ \A n \in {".", ".."} :
          \E i \in DOMAIN files : files[i].name = n /\ files[i].kind = "Directory"
    /\ \A k \in Keys :
          \E i \in DOMAIN files : files[i].name = k /\ files[i].kind = "RegularFile"
    /\ \A i, j \in DOMAIN files : files[i].name = files[j].name => i = j

\* C8: readdir on an open Directory handle returns exactly ".", ".." and one
\* regular-file entry per registry key.
C8_ReaddirListsRegistry ==
    [][\A t \in Threads :
         (BodyStep(t, "readdir") /\ KindOf(handles, req'[t].fh[1]) = "Directory")
         => (ret'[t].ok /\ ExactListing(ret'[t].val))]_vars

\* A readdir of a two-key registry has returned while a File handle is open
\* too.
C8_Witness ==
    \E t \in Threads :
        /\ Done(t, "readdir") /\ ret[t].ok
        /\ Cardinality(Keys) = 2
        /\ \E h \in DOMAIN handles : handles[h].kind = "File"
        /\ KindOf(handles, req[t].fh[1]) = "Directory"

\* C9: getattr given an open File handle reports the target size of the
\* header of the path the handle was opened with, whatever its path
\* argument; given an open Directory handle it reports size 0.
C9_GetattrByHandleSize ==
    [][\A t \in Threads :
         (BodyStep(t, "getattr") /\ req'[t].fh # <<>>)
         => LET h == req'[t].fh[1] IN
            /\ KindOf(handles, h) = "File"
               => /\ ret'[t].ok
                  /\ ret'[t].val[2].size
                        = rom_manager.target_roms[opened_as[h][1]].target_size
                  /\ ret'[t].val[2].kind = "RegularFile"
            /\ KindOf(handles, h) = "Directory"
               => /\ ret'[t].ok
                  /\ ret'[t].val[2].size = 0
                  /\ ret'[t].val[2].kind = "Directory"]_vars

\* getattr on a handle of b.rom, called with another path, has reported
\* b.rom's size while a handle of a.rom is open too.
C9_Witness ==
    \E t \in Threads :
        /\ Done(t, "getattr") /\ req[t].fh # <<>> /\ ret[t].ok
        /\ req[t].fh[1] \in DOMAIN handles
        /\ opened_as[req[t].fh[1]] = <<"b.rom">>
        /\ req[t].path = <<"/", "a.rom">>
        /\ ret[t].val[2].size = 1
        /\ \E h \in DOMAIN handles : opened_as[h] = <<"a.rom">>

\* C10: readdir and releasedir fail with ENOENT on an identifier that is
\* absent or names a File handle, release on one that is absent or names a
\* Directory handle, and the handle table is then left as it was.
C10_WrongHandleIsNotFound ==
    [][\A t \in Threads :
         /\ (/\ BodyStep(t, "readdir") \/ BodyStep(t, "releasedir")
             /\ KindOf(handles, req'[t].fh[1]) # "Directory")
            => (~ret'[t].ok /\ ret'[t].err = ENOENT /\ handles' = handles)
         /\ (/\ BodyStep(t, "release")
             /\ KindOf(handles, req'[t].fh[1]) # "File")
            => (~ret'[t].ok /\ ret'[t].err = ENOENT /\ handles' = handles)]_vars

\* A release of a Directory handle and a releasedir of a File handle have
\* failed, and both handles are still open.
C10_Witness ==
    \E t, u \in Threads :
        /\ Done(t, "release") /\ NotFound(t)
        /\ KindOf(handles, req[t].fh[1]) = "Directory"
        /\ Done(u, "releasedir") /\ NotFound(u)
        /\ KindOf(handles, req[u].fh[1]) = "File"

\* The identifier a finished or finishing request was called on, if any.
Target(q) == IF q.fh = <<>> THEN {} ELSE {q.fh[1]}

\* C11: an operation that returns an error leaves the registry unchanged,
\* leaves the table entry of every handle other than the one it was called on
\* unchanged, and returns holding no mutex, so later operations are served.
C11_ErrorLeavesStateIntact ==
    [][\A t \in Threads, o \in Ops :
         (BodyStep(t, o) /\ ~ret'[t].ok)
         => /\ rom_manager' = rom_manager
            /\ \A id \in (DOMAIN handles \cup DOMAIN handles') \ Target(req'[t]) :
                  /\ id \in DOMAIN handles
                  /\ id \in DOMAIN handles'
                  /\ handles'[id] = handles[id]
            /\ \A l \in LockNames : owner'[l] # t]_vars

\* A read has failed on one handle while two handles are open, and the other
\* worker has since been served.
C11_Witness ==
    \E t, u \in Threads :
        /\ Done(t, "read") /\ ~ret[t].ok /\ ret[t].err = ENOSYS
        /\ Cardinality(DOMAIN handles) = 2
        /\ Done(u, "getattr") /\ ret[u].ok /\ req[u].fh # <<>>
        /\ req[u].fh # req[t].fh

\* The body step of whatever handler thread t runs.
Body(t) ==
    \/ init(t) \/ opendir(t) \/ readdir(t) \/ releasedir(t) \/ access(t)
    \/ getattr(t) \/ open(t) \/ read(t) \/ release(t)

\* Fair scheduling of the workers: a worker that can run its handler's body
\* does so, and a worker waiting for a mutex that is free again and again
\* eventually gets it.
FairSpec == Spec /\ \A t \in Threads : WF_vars(Body(t)) /\ SF_vars(Lock(t))

InHandler(t) == pc[t] \in LockNames \cup {"body"}

\* The one order in which the handlers take the mutexes.
LockOrder == <<"rom_manager", "handles", "next_handle">>
Rank(l) == CHOOSE i \in DOMAIN LockOrder : LockOrder[i] = l

\* A worker waiting for a mutex holds only mutexes that come before it.
OrderedLocking ==
    \A t \in Threads :
        pc[t] \in LockNames
        => \A l \in LockNames : owner[l] = t => Rank(l) < Rank(pc[t])

HeaderOf(h) == rom_manager.target_roms[opened_as[h][1]]

\* The cache of File handle h is absent or the complete byte sequence.
CacheWhole(h) ==
    \/ handles[h].data = <<>>
    \/ /\ Len(handles[h].data) = 1
       /\ Len(handles[h].data[1]) = HeaderOf(h).target_size

FileHandles(tbl) == {h \in DOMAIN tbl : tbl[h].kind = "File"}

\* C14: the cache of every File handle is absent or holds a byte sequence of
\* the header's target size; open creates it absent, only a read changes it
\* from absent to present, and a present cache stays as it is until the
\* handle is released.
C14_CacheAbsentOrWhole ==
    /\ [](\A h \in FileHandles(handles) : CacheWhole(h))
    /\ [][\A h \in FileHandles(handles') :
            /\ h \notin DOMAIN handles => handles'[h].data = <<>>
            /\ (h \in DOMAIN handles /\ handles[h].data # <<>>)
               => handles'[h].data = handles[h].data
            /\ (h \in DOMAIN handles /\ handles[h].data = <<>>
                  /\ handles'[h].data # <<>>)
               => \E t \in Threads : BodyStep(t, "read") /\ req'[t].fh = <<h>>]_vars

\* A read on an open File handle of the two-byte file has returned and the
\* handle's cache is absent.
C14_Witness ==
    \E t \in Threads :
        /\ Done(t, "read")
        /\ KindOf(handles, req[t].fh[1]) = "File"
        /\ HeaderOf(req[t].fh[1]).target_size = 2
        /\ handles[req[t].fh[1]].data = <<>>

\* Open File handles h1 and h2 come from the same registry path.
SamePath(h1, h2) ==
    /\ h1 # h2
    /\ h1 \in FileHandles(handles) /\ h2 \in FileHandles(handles)
    /\ opened_as[h1] = opened_as[h2]

\* C15: of two handles opened from the same registry path, an operation on
\* one (read, getattr, release) leaves the table entry of the other, with its
\* attributes and cache, unchanged; the other stays open after the first is
\* released, and getattr and release on it then succeed.
C15_SamePathHandlesIndependent ==
    [][\A t \in Threads, h1, h2 \in DOMAIN handles :
         /\ (/\ SamePath(h1, h2)
             /\ \E o \in HandleOps : BodyStep(t, o)
             /\ req'[t].fh = <<h1>>)
            => /\ h2 \in DOMAIN handles'
               /\ handles'[h2] = handles[h2]
         /\ (/\ h2 \in FileHandles(handles)
             /\ BodyStep(t, "getattr") \/ BodyStep(t, "release")
             /\ req'[t].fh = <<h2>>)
            => ret'[t].ok]_vars

\* In a registry whose only file is a.rom, the first handle has been released
\* by one worker and getattr on the second, still open, has succeeded.
C15_Witness ==
    \E t, u \in Threads :
        /\ Keys = {"a.rom"}
        /\ Done(t, "release") /\ ret[t].ok /\ req[t].fh = <<1>>
        /\ Done(u, "getattr") /\ ret[u].ok /\ req[u].fh = <<2>>
        /\ KindOf(handles, 2) = "File"
        /\ ret[u].val[2].size = 2

\* C16: no step of any handler, successful or failing, changes the registry:
\* its names and the header of each name stay as constructed.
C16_RegistryNeverChanges ==
    /\ [](rom_manager.target_roms \in Registries)
    /\ [][/\ DOMAIN rom_manager'.target_roms = DOMAIN rom_manager.target_roms
          /\ \A n \in DOMAIN rom_manager.target_roms :
                rom_manager'.target_roms[n] = rom_manager.target_roms[n]]_vars

\* In a session with a non-empty registry a handle was opened and released,
\* an open has failed and a readdir has succeeded.
C16_Witness ==
    \E t, u \in Threads :
        /\ Keys # {}
        /\ released # {}
        /\ Done(t, "open") /\ NotFound(t)
        /\ Done(u, "readdir") /\ ret[u].ok

\* C17: access succeeds for every path and every mask and leaves the handle
\* table, the identifier counter and the registry unchanged.
C17_AccessAlwaysSucceeds ==
    [][\A t \in Threads :
         BodyStep(t, "access")
         => /\ ret'[t].ok
            /\ handles' = handles
            /\ next_handle' = next_handle
            /\ rom_manager' = rom_manager]_vars

\* access with the write mask has succeeded on an unknown path while a handle
\* is open.
C17_Witness ==
    \E t \in Threads :
        /\ Done(t, "access") /\ ret[t].ok
        /\ req[t].path = <<"/", "missing.rom">>
        /\ req[t].mask = 2
        /\ DOMAIN handles # {}

\* C18: the k-th successful open/opendir of a session returns identifier k
\* (the first returns 1), and an open or opendir that fails consumes no
\* identifier and inserts nothing into the handle table.
C18_IdentifiersCountFromOne ==
    /\ [](\A k \in DOMAIN issued : issued[k] = k)
    /\ [][\A t \in Threads, o \in AllocOps :
            BodyStep(t, o)
            => IF ret'[t].ok
               THEN /\ ret'[t].val[1] = Len(issued) + 1
                    /\ issued' = Append(issued, ret'[t].val[1])
               ELSE /\ ret'[t].err = ENOENT
                    /\ next_handle' = next_handle
                    /\ handles' = handles
                    /\ issued' = issued]_vars

\* After a failed open and a failed opendir, two calls have succeeded, the
\* second of them held by a worker as identifier 2.
C18_Witness ==
    \E t \in Threads :
        /\ issued = <<1, 2>>
        /\ pc[t] = "done" /\ op[t] \in AllocOps /\ ret[t].ok /\ ret[t].val[1] = 2
        /\ \E u \in Threads \ {t} : pc[u] = "done" /\ op[u] \in AllocOps /\ NotFound(u)

ReleaseOps == {"release", "releasedir"}
VariantOf(o) == IF o = "release" THEN "File" ELSE "Directory"

\* C19: of two release (or two releasedir) calls on the same handle, the one
\* that finds the handle in the table succeeds and removes it, the other
\* fails with ENOENT, never both succeed, and the handle is absent afterwards;
\* the bodies of two such calls never run at the same time.
C19_ConcurrentReleaseOnce ==
    /\ [](\A t, u \in Threads :
            (t # u /\ op[t] \in ReleaseOps /\ op[u] \in ReleaseOps)
            => /\ ~(pc[t] = "body" /\ pc[u] = "body")
               /\ (pc[t] = "done" /\ pc[u] = "done" /\ req[t].fh = req[u].fh)
                  => /\ ~(ret[t].ok /\ ret[u].ok)
                     /\ (ret[t].ok \/ ret[u].ok) => req[t].fh[1] \notin DOMAIN handles)
    /\ [][\A t \in Threads, o \in ReleaseOps :
            BodyStep(t, o)
            => LET h == req'[t].fh[1] IN
               /\ h \notin DOMAIN handles' \/ KindOf(handles, h) # VariantOf(o)
               /\ KindOf(handles, h) = VariantOf(o) => ret'[t].ok
               /\ h \in released => (~ret'[t].ok /\ ret'[t].err = ENOENT)]_vars

\* Two workers have released the same File handle: one succeeded, the other
\* got ENOENT, and the handle is gone.
C19_Witness ==
    \E t, u \in Threads :
        /\ t # u
        /\ Done(t, "release") /\ Done(u, "release")
        /\ req[t].fh = req[u].fh
        /\ ret[t].ok /\ NotFound(u)
        /\ req[t].fh[1] \notin DOMAIN handles

\* C20: every identifier in the handle table is at least 1 and smaller than
\* the counter, the counter never decreases, and the insert of open/opendir
\* never lands on an identifier already in the table.
C20_TableBelowCounter ==
    /\ [](\A id \in DOMAIN handles : 1 <= id /\ id < next_handle)
    /\ [][/\ next_handle' >= next_handle
          /\ \A t \in Threads, o \in AllocOps :
                (BodyStep(t, o) /\ ret'[t].ok)
                => /\ ret'[t].val[1] \notin DOMAIN handles
                   /\ DOMAIN handles' = DOMAIN handles \cup {ret'[t].val[1]}
                   /\ \A id \in DOMAIN handles : handles'[id] = handles[id]]_vars

\* The counter stands past two issued identifiers, the first of which has
\* been released while the second is in the table.
C20_Witness ==
    /\ next_handle = 3
    /\ DOMAIN handles = {2}
    /\ released = {1}

====
